---- MODULE Spec2Model ----
(***************************************************************************)
(* GenAI_BuildBuddy: the LangGraph pipeline planner -> architect -> coder   *)
(* (src/agent/graph.py, src/main.py) and the sandboxed tool layer          *)
(* (src/agent/tools.py).                                                   *)
(*                                                                         *)
(* Paths are sequences of components.  An absolute, resolved path is a     *)
(* sequence of names counted from "/", so <<"w", "gp", "a">> is /w/gp/a.    *)
(* A path string handed to a tool is a record [abs, parts]: abs says        *)
(* whether the string starts with "/", parts are its components.           *)
(***************************************************************************)
EXTENDS Integers, Sequences, FiniteSets, TLC

VARIABLES
    fs,          \* the filesystem: resolved path -> [kind, data]
    links,       \* the symbolic links: path of the link -> its absolute target
    last,        \* the tool call made last and its outcome
    pc,          \* where main() and the graph run are
    limit,       \* args.recursion_limit
    sched,       \* the graph nodes due in the next superstep
    state,       \* the graph's state dict
    cur,         \* the activation in progress: its coder_state and current_task
    session,     \* the worker sub-session in progress
    obs          \* what the run has done so far (counts and exit code)

vars == <<fs, links, last, pc, limit, sched, state, cur, session, obs>>

\* the variables of the graph run
run == <<pc, limit, sched, state, cur, session, obs>>

None == "None"

-----------------------------------------------------------------------------
(* Bounds of the model. *)

\* the longest relative path string given to safe_path_for_project, in
\* components
MaxPathLen == 3

\* the most implementation steps the architect returns
MaxSteps == 3

\* the largest recursion limit given on the command line
MaxLimit == 6

-----------------------------------------------------------------------------
(* tools.py: PROJECT_ROOT and safe_path_for_project *)

\* pathlib.Path.cwd()
CWD == <<"w">>

\* PROJECT_ROOT = pathlib.Path.cwd() / "generated_project"
PROJECT_ROOT == CWD \o <<"gp">>

\* Path.parent: the parent of "/" is "/"
Parent(p) == IF p = <<>> THEN <<>> ELSE SubSeq(p, 1, Len(p) - 1)

\* Path.parents: every proper ancestor of p, "/" included
Parents(p) == {SubSeq(p, 1, k) : k \in 0..(Len(p) - 1)}

\* PROJECT_ROOT / path: an absolute right operand replaces the left one
JoinPath(base, path) == IF path.abs THEN path.parts ELSE base \o path.parts

\* Path.resolve(): components are walked from "/"; "." is dropped, ".." pops
\* the component resolved so far, a symbolic link is replaced by its target
\* (which is walked in turn); components that do not exist are kept.
RECURSIVE Walk(_, _, _)
Walk(done, rest, lk) ==
    IF rest = <<>> THEN done
    ELSE LET c == Head(rest)
             q == Append(done, c)
         IN  IF c = "." THEN Walk(done, Tail(rest), lk)
             ELSE IF c = ".." THEN Walk(Parent(done), Tail(rest), lk)
             ELSE IF q \in DOMAIN lk THEN Walk(<<>>, lk[q] \o Tail(rest), lk)
             ELSE Walk(q, Tail(rest), lk)

Resolve(p, lk) == Walk(<<>>, p, lk)

\* the outcome of a call: the exception raised (None when it returned), the
\* value returned, and the filesystem it leaves
Returned(v, f) == [exc |-> None, ret |-> v, fs |-> f]
Raised(e, f) == [exc |-> e, ret |-> None, fs |-> f]

\* ValueError("Attempt to write outside project root")
SecurityError == "ValueError: Attempt to write outside project root"

\* the test of safe_path_for_project: TRUE when the path is refused
Escapes(p, root) ==
    /\ root \notin Parents(p)
    /\ root # Parent(p)
    /\ root # p

\* the check made against the configured root instead of the resolved one
safe_path_raw_root(path, lk) ==
    LET p == Resolve(JoinPath(PROJECT_ROOT, path), lk)
    IN  IF Escapes(p, PROJECT_ROOT)
        THEN Raised(SecurityError, None)
        ELSE Returned(p, None)

safe_path_for_project(path, lk) ==
    LET p == Resolve(JoinPath(PROJECT_ROOT, path), lk)
    IN  IF Escapes(p, Resolve(PROJECT_ROOT, lk))
        THEN Raised(SecurityError, None)
        ELSE Returned(p, None)

-----------------------------------------------------------------------------
(* The filesystem *)

Dir == [kind |-> "dir", data |-> ""]
File(d) == [kind |-> "file", data |-> d]
Absent == [kind |-> "absent", data |-> ""]

\* what is at the resolved path p
NodeAt(f, p) == IF p \in DOMAIN f THEN f[p] ELSE Absent

\* Path.exists(), Path.is_dir(), Path.is_file() of a resolved path
Exists(f, p) == p \in DOMAIN f
IsDir(f, p) == p \in DOMAIN f /\ f[p].kind = "dir"
IsFile(f, p) == p \in DOMAIN f /\ f[p].kind = "file"

\* f with the node at p set to n
Put(f, p, n) == [q \in DOMAIN f \cup {p} |-> IF q = p THEN n ELSE f[q]]

\* file bytes that are not valid UTF-8 (a file some other program left)
Undecodable == "<bytes that are not UTF-8>"

\* f.read() of a file opened with open(p, "r", encoding="utf-8"): the bytes
\* decoded, and, as newline is left at its default, "\r\n" read as "\n"
Decode(data) == IF data = "a\r\nb" THEN "a\nb" ELSE data

-----------------------------------------------------------------------------
(* json.loads and json.dumps(indent=2) on the contents the model writes *)

Contents ==
    { "hi", "a\r\nb", "42", "null", "[1, 2]", "\"hi\"",
      "{\"k\":1}", "{\n  \"k\": 1\n}" }

\* the contents the tool layer is exercised with
ToolContents == {"hi", "[1, 2]", "\"hi\"", "{\"k\":1}"}

\* type(json.loads(content)), or JSONDecodeError when content is not JSON
JsonType(content) ==
    CASE content \in {"{\"k\":1}", "{\n  \"k\": 1\n}"} -> "dict"
      [] content = "[1, 2]" -> "list"
      [] content = "42" -> "int"
      [] content = "null" -> "NoneType"
      [] content = "\"hi\"" -> "str"
      [] content \in {"hi", "a\r\nb"} -> "JSONDecodeError"

\* json.dumps(json.loads(content), indent=2) of a content that is a dict
JsonDumpsIndent2(content) ==
    CASE content \in {"{\"k\":1}", "{\n  \"k\": 1\n}"} -> "{\n  \"k\": 1\n}"

\* json.loads(content) of a content that is a JSON string literal
JsonStrValue(content) ==
    CASE content = "\"hi\"" -> "hi"

-----------------------------------------------------------------------------
(* tools.py: the tools *)

\* p.parent.mkdir(parents=True, exist_ok=True), d the directory to make
mkdir_parents(f, d) ==
    IF \E q \in Parents(d) \cup {d} : IsFile(f, q)
    THEN Raised(IF IsFile(f, d) THEN "FileExistsError" ELSE "NotADirectoryError", f)
    ELSE Returned(None,
            [q \in DOMAIN f \cup Parents(d) \cup {d} |->
                IF q \in DOMAIN f THEN f[q] ELSE Dir])

\* the try block of write_file: what `content` is bound to after it
Normalised(content) ==
    LET t == JsonType(content)
    IN  IF t = "JSONDecodeError" THEN [isStr |-> TRUE, text |-> content]
        ELSE IF t = "dict" THEN [isStr |-> TRUE, text |-> JsonDumpsIndent2(content)]
        ELSE IF t = "str" THEN [isStr |-> TRUE, text |-> JsonStrValue(content)]
        ELSE [isStr |-> FALSE, text |-> ""]

\* with open(p, "w", encoding="utf-8") as f: f.write(content)
open_w_write(f, p, content) ==
    IF IsDir(f, p) THEN Raised("IsADirectoryError", f)
    ELSE IF ~content.isStr THEN Raised("TypeError", Put(f, p, File("")))
    ELSE Returned(<<"WROTE", p>>, Put(f, p, File(content.text)))

\* write_file without the call of safe_path_for_project
write_file_unchecked(f, lk, path, content) ==
    LET p == Resolve(JoinPath(PROJECT_ROOT, path), lk)
        mk == mkdir_parents(f, Parent(p))
    IN  IF mk.exc # None THEN mk
        ELSE open_w_write(mk.fs, p, Normalised(content))

write_file(f, lk, path, content) ==
    LET sp == safe_path_for_project(path, lk)
    IN  IF sp.exc # None THEN Raised(sp.exc, f)
        ELSE LET mk == mkdir_parents(f, Parent(sp.ret))
             IN  IF mk.exc # None THEN mk
                 ELSE open_w_write(mk.fs, sp.ret, Normalised(content))

\* read_file without the test of p.exists()
read_file_no_exists_test(f, lk, path) ==
    LET sp == safe_path_for_project(path, lk)
    IN  IF sp.exc # None THEN Raised(sp.exc, f)
        ELSE IF ~Exists(f, sp.ret) THEN Raised("FileNotFoundError", f)
        ELSE IF IsDir(f, sp.ret) THEN Raised("IsADirectoryError", f)
        ELSE IF f[sp.ret].data = Undecodable THEN Raised("UnicodeDecodeError", f)
        ELSE Returned(Decode(f[sp.ret].data), f)

read_file(f, lk, path) ==
    LET sp == safe_path_for_project(path, lk)
    IN  IF sp.exc # None THEN Raised(sp.exc, f)
        ELSE IF ~Exists(f, sp.ret) THEN Returned("", f)
        ELSE IF IsDir(f, sp.ret) THEN Raised("IsADirectoryError", f)
        ELSE IF f[sp.ret].data = Undecodable THEN Raised("UnicodeDecodeError", f)
        ELSE Returned(Decode(f[sp.ret].data), f)

get_current_directory(f) == Returned(PROJECT_ROOT, f)

\* p.glob("**/*"): every entry below p, symbolic links as themselves
GlobAll(f, lk, p) ==
    {q \in DOMAIN f : p \in Parents(q)}
        \cup {l \in DOMAIN lk : p \in Parents(l) /\ IsDir(f, Parent(l))}

\* f.relative_to(PROJECT_ROOT): lexical, raises when f is not below it
RelativeTo(q, base) == SubSeq(q, Len(base) + 1, Len(q))

\* the one line returned for a directory that holds no file
NoFilesFound == {<<"No files found.">>}

\* the string returned is given by the set of its lines: "\n".join(files)
\* has one line for each file, in the order of the glob
list_files(f, lk, directory) ==
    LET sp == safe_path_for_project(directory, lk)
    IN  IF sp.exc # None THEN Raised(sp.exc, f)
        ELSE IF ~IsDir(f, sp.ret) THEN Returned(<<"ERROR: not a directory", sp.ret>>, f)
        ELSE LET found == {q \in GlobAll(f, lk, sp.ret) : IsFile(f, Resolve(q, lk))}
             IN  IF \E q \in found : PROJECT_ROOT \notin Parents(q)
                 THEN Raised("ValueError: not in the subpath", f)
                 ELSE IF found = {} THEN Returned(NoFilesFound, f)
                 ELSE Returned({RelativeTo(q, PROJECT_ROOT) : q \in found}, f)

\* the shell commands the model runs, under the default timeout of 30 s
Cmds == {"true", "false", "touch a", "touch b", "sleep 60"}

\* the commands the tool layer is exercised with
ToolCmds == {"touch a", "sleep 60"}

\* subprocess.run(cmd, shell=True, cwd=str(cwd_dir), timeout=timeout)
subprocess_run(f, lk, cmd, cwd_dir) ==
    LET d == Resolve(cwd_dir, lk)
    IN  IF ~Exists(f, d) THEN Raised("FileNotFoundError", f)
        ELSE IF ~IsDir(f, d) THEN Raised("NotADirectoryError", f)
        ELSE CASE cmd = "true" -> Returned(<<0, "", "">>, f)
               [] cmd = "false" -> Returned(<<1, "", "">>, f)
               [] cmd = "sleep 60" -> Raised("TimeoutExpired", f)
               [] cmd \in {"touch a", "touch b"} ->
                    LET t == Append(d, IF cmd = "touch a" THEN "a" ELSE "b")
                    IN  IF Exists(f, t) THEN Returned(<<0, "", "">>, f)
                        ELSE Returned(<<0, "", "">>, Put(f, t, File("")))

\* the path string "" (PROJECT_ROOT / "" is PROJECT_ROOT)
EmptyPath == [abs |-> FALSE, parts |-> <<>>]

\* cwd is <<>> for None and <<path>> for a path string; `if cwd` is false
\* for None and for ""
run_cmd(f, lk, cmd, cwd) ==
    IF cwd = <<>> \/ cwd = <<EmptyPath>>
    THEN subprocess_run(f, lk, cmd, PROJECT_ROOT)
    ELSE LET sp == safe_path_for_project(cwd[1], lk)
         IN  IF sp.exc # None THEN Raised(sp.exc, f)
             ELSE subprocess_run(f, lk, cmd, sp.ret)

-----------------------------------------------------------------------------
(* The inputs of the model: path strings, symbolic links, filesystems *)

\* the components of the relative path strings
Comp == {"a", "..", "ln"}

RECURSIVE SeqsUpTo(_, _)
SeqsUpTo(S, n) ==
    IF n = 0 THEN {<<>>}
    ELSE LET shorter == SeqsUpTo(S, n - 1)
         IN  shorter \cup {Append(q, c) : q \in shorter, c \in S}

Rel(parts) == [abs |-> FALSE, parts |-> parts]
Abs(parts) == [abs |-> TRUE, parts |-> parts]

\* the directory a symbolic link PROJECT_ROOT points to, and a directory
\* that lies outside the project root
RealRoot == <<"r">>
Outside == <<"w", "o">>

\* the path strings safe_path_for_project is exercised with
InputPaths ==
    {Rel(q) : q \in SeqsUpTo(Comp, MaxPathLen)}
        \cup {Abs(PROJECT_ROOT \o <<"a">>), Abs(PROJECT_ROOT), Abs(Outside \o <<"a">>)}

\* the path strings the tools are exercised with: the root, a file in it, a
\* file in a directory of it, the name ln and a file below it, the parent of
\* the root, a path outside the root where nothing is, a file outside the root
ToolPaths ==
    { EmptyPath, Rel(<<"a">>), Rel(<<"a", "a">>), Rel(<<"ln">>), Rel(<<"ln", "a">>),
      Rel(<<"..">>), Rel(<<"..", "a">>), Abs(Outside \o <<"a">>) }

NoLinks == [l \in {} |-> <<>>]

\* no link; a link in the root to a directory outside it; a link in the root
\* to a path inside it; PROJECT_ROOT itself a link; PROJECT_ROOT a link and a
\* link in the real root to a directory outside it
LinkConfigs ==
    { NoLinks,
      [l \in {PROJECT_ROOT \o <<"ln">>} |-> Outside],
      [l \in {PROJECT_ROOT \o <<"ln">>} |-> PROJECT_ROOT \o <<"a">>],
      [l \in {PROJECT_ROOT} |-> RealRoot],
      [l \in {PROJECT_ROOT, RealRoot \o <<"ln">>} |->
            IF l = PROJECT_ROOT THEN RealRoot ELSE Outside] }

\* what exists whatever the project holds: /, the working directory, a
\* directory outside the root with a file in it
BaseFs ==
    [q \in {<<>>, CWD, Outside, Outside \o <<"a">>} |->
        IF q = Outside \o <<"a">> THEN File("secret") ELSE Dir]

\* the project directory r: not made yet; empty; holding the file a;
\* holding the directory a with a file a/a that is not UTF-8
ProjectFs(r) ==
    { BaseFs,
      Put(BaseFs, r, Dir),
      Put(Put(BaseFs, r, Dir), Append(r, "a"), File("hi")),
      Put(Put(Put(BaseFs, r, Dir), Append(r, "a"), Dir),
          r \o <<"a", "a">>, File(Undecodable)) }

InitialFs(lk) == ProjectFs(Resolve(PROJECT_ROOT, lk))

-----------------------------------------------------------------------------
(* The tool layer on its own: any tool, called with any path string *)

NoCall ==
    [op |-> "none", path |-> EmptyPath, arg |-> "", exc |-> None, ret |-> None,
     pre |-> Absent, unchanged |-> TRUE]

\* the record of a call: r is its outcome, f the filesystem it started on
Call(op, path, arg, r, f) ==
    [op |-> op, path |-> path, arg |-> arg, exc |-> r.exc, ret |-> r.ret,
     pre |-> NodeAt(f, Resolve(JoinPath(PROJECT_ROOT, path), links)),
     unchanged |-> (r.fs = f)]

\* the variables of the graph run while only the tools are exercised
NoRun ==
    /\ pc = "tools"
    /\ limit = 0
    /\ sched = {}
    /\ state = None
    /\ cur = None
    /\ session = None
    /\ obs = None

InitPaths ==
    /\ links \in LinkConfigs
    /\ fs = BaseFs
    /\ last = NoCall
    /\ NoRun

CallSafePath ==
    \E path \in InputPaths :
        /\ last' = Call("safe_path_for_project", path, "",
                        [safe_path_for_project(path, links) EXCEPT !.fs = fs], fs)
        /\ UNCHANGED <<fs, links, run>>

SpecPaths == InitPaths /\ [][CallSafePath]_vars

InitTools ==
    /\ links \in LinkConfigs
    /\ fs \in InitialFs(links)
    /\ last = NoCall
    /\ NoRun

CallWriteFile ==
    \E path \in ToolPaths, content \in ToolContents :
        LET r == write_file(fs, links, path, content)
        IN  /\ fs' = r.fs
            /\ last' = Call("write_file", path, content, r, fs)
            /\ UNCHANGED <<links, run>>

CallReadFile ==
    \E path \in ToolPaths :
        LET r == read_file(fs, links, path)
        IN  /\ fs' = r.fs
            /\ last' = Call("read_file", path, "", r, fs)
            /\ UNCHANGED <<links, run>>

CallListFiles ==
    \E path \in ToolPaths :
        LET r == list_files(fs, links, path)
        IN  /\ fs' = r.fs
            /\ last' = Call("list_files", path, "", r, fs)
            /\ UNCHANGED <<links, run>>

CallGetCurrentDirectory ==
    LET r == get_current_directory(fs)
    IN  /\ fs' = r.fs
        /\ last' = Call("get_current_directory", EmptyPath, "", r, fs)
        /\ UNCHANGED <<links, run>>

\* run_cmd with an explicit cwd
CallRunCmd ==
    \E path \in ToolPaths, cmd \in ToolCmds :
        LET r == run_cmd(fs, links, cmd, <<path>>)
        IN  /\ fs' = r.fs
            /\ last' = Call("run_cmd", path, cmd, r, fs)
            /\ UNCHANGED <<links, run>>

\* run_cmd with cwd left at None
CallRunCmdNoCwd ==
    \E cmd \in ToolCmds :
        LET r == run_cmd(fs, links, cmd, <<>>)
        IN  /\ fs' = r.fs
            /\ last' = Call("run_cmd(cwd=None)", EmptyPath, cmd, r, fs)
            /\ UNCHANGED <<links, run>>

NextTools ==
    \/ CallWriteFile
    \/ CallReadFile
    \/ CallListFiles
    \/ CallGetCurrentDirectory
    \/ CallRunCmd
    \/ CallRunCmdNoCwd

SpecTools == InitTools /\ [][NextTools]_vars

-----------------------------------------------------------------------------
(* graph.py: the graph, its state and the three agents *)

Nodes == {"planner", "architect", "coder"}

\* the edges with one from "planner" to "coder" added
Edges_PlannerToCoder ==
    {<<"planner", "architect">>, <<"architect", "coder">>, <<"planner", "coder">>}

\* graph.add_edge("planner", "architect"); graph.add_edge("architect", "coder")
Edges == {<<"planner", "architect">>, <<"architect", "coder">>}

\* graph.set_entry_point("planner")
EntryPoint == "planner"

\* CoderState(task_plan=..., current_step_idx=...)
CoderState(tp, i) == [task_plan |-> tp, current_step_idx |-> i]

\* the graph's state is a dict: keys are the keys it holds, the other fields
\* the values of the keys the agents read.  StateGraph(dict) keeps what the
\* node that ran last returned.
StateDict(keys, tp, cs, status) ==
    [keys |-> keys, task_plan |-> tp, coder_state |-> cs, status |-> status]

EmptyDict == StateDict({}, <<>>, CoderState(<<>>, 0), "")

\* s.get("status")
GetStatus(s) == IF "status" \in s.keys THEN s.status ELSE None

\* the conditional edge of "coder", going to END whatever the status is
Route_AlwaysEnds(s) == "END"

\* the conditional edge of "coder", sending DONE to "coder" again
Route_NeverEnds(s) == "coder"

\* lambda s: "END" if s.get("status") == "DONE" else "coder"
Route(s) == IF GetStatus(s) = "DONE" THEN "END" ELSE "coder"

\* the nodes due after node n has returned the state s
NextNodes(n, s) ==
    {e[2] : e \in {d \in Edges : d[1] = n}}
        \cup (IF n = "coder" THEN {Route(s)} ELSE {})

\* the test made with > in place of >=
AllDone_Strict(cs) == cs.current_step_idx > Len(cs.task_plan)

\* coder_state.current_step_idx >= len(steps)
AllDone(cs) == cs.current_step_idx >= Len(cs.task_plan)

\* the step index moved on by two
Advance_Twice(cs) == [cs EXCEPT !.current_step_idx = @ + 2]

\* coder_state.current_step_idx += 1
Advance(cs) == [cs EXCEPT !.current_step_idx = @ + 1]

\* a superstep is refused although the limit is reached: never
StepsExhausted_Never(done, lim) == FALSE

\* the graph run has made as many supersteps as the recursion limit allows
StepsExhausted(done, lim) == done >= lim

\* the sub-session (a graph run of its own, which takes the recursion limit
\* of the run it is made in) can make one more tool call after `calls` of
\* them: a tool call takes a superstep, and the model's answer another
MayCallTool(calls, lim) == 2 * (calls + 1) + 1 <= lim

\* the file paths the architect puts in the steps
StepPaths == {Rel(<<"a">>), Rel(<<"..", "a">>)}

Step(path) == [filepath |-> path, task_description |-> "task"]

\* the steps the architect writes: one for each file path, and a second one,
\* with another description, for the file in the root
Steps ==
    {Step(path) : path \in StepPaths}
        \cup {[filepath |-> Rel(<<"a">>), task_description |-> "task 2"]}

\* the TaskPlans the architect may return: implementation_steps only
TaskPlans == UNION {[1..n -> Steps] : n \in 0..MaxSteps}

\* the names the worker sub-session is offered with a tool behind each, and
\* the same with run_cmd among them
coder_tools_with_run_cmd ==
    {"read_file", "write_file", "repo_browser.list_files", "get_current_directory",
     "run_cmd"}

\* coder_tools = [read_file, write_file, repo_browser_list_files,
\*                get_current_directory], by the names of the tools
coder_tools ==
    {"read_file", "write_file", "repo_browser.list_files", "get_current_directory"}

\* names the worker may ask for that coder_tools does not hold: a tool of
\* tools.py that is not offered, the listing tool by its bare name, and a
\* name behind which there is no tool (diff and apply_patch are as patch)
UnlistedNames == {"run_cmd", "list_files", "patch"}

\* the tool calls the worker may make while it works on step `step`:
\* coder_tools, with the step's file, a path outside the root, the root; and
\* calls by a name that is not offered
WorkerCalls(step) ==
    { [tool |-> "write_file", path |-> step.filepath, arg |-> "hi"],
      [tool |-> "write_file", path |-> step.filepath, arg |-> "[1, 2]"],
      [tool |-> "write_file", path |-> Rel(<<"..", "a">>), arg |-> "hi"],
      [tool |-> "read_file", path |-> step.filepath, arg |-> ""],
      [tool |-> "repo_browser.list_files", path |-> EmptyPath, arg |-> ""],
      [tool |-> "get_current_directory", path |-> EmptyPath, arg |-> ""] }
        \cup {[tool |-> n, path |-> EmptyPath,
               arg |-> IF n = "run_cmd" THEN "touch b" ELSE "--- a\n+++ b"] :
                    n \in UnlistedNames}

\* the function behind a tool name
RunTool(f, lk, c) ==
    CASE c.tool = "write_file" -> write_file(f, lk, c.path, c.arg)
      [] c.tool = "read_file" -> read_file(f, lk, c.path)
      [] c.tool \in {"repo_browser.list_files", "list_files"} -> list_files(f, lk, c.path)
      [] c.tool = "get_current_directory" -> get_current_directory(f)
      [] c.tool = "run_cmd" -> run_cmd(f, lk, c.arg, <<>>)

\* the answer the worker gets for a name it was not offered
NotAValidTool == <<"Error: not a valid tool">>

\* the tool node of the sub-session: a call by a name of coder_tools runs the
\* tool, a call by any other name is answered with an error and runs nothing
ToolNode(f, lk, c) ==
    IF c.tool \in coder_tools THEN RunTool(f, lk, c)
    ELSE Returned(NotAValidTool, f)

NoCur == [coder_state |-> CoderState(<<>>, 0), startIdx |-> 0]
NoSession == [calls |-> 0, errors |-> FALSE]

\* what the run has done: how often each agent was activated, the worker
\* sub-sessions invoked and returned, the supersteps and tool calls made, the
\* plan as the architect returned it, the step indices a worker was invoked
\* for, whether a step went on after a tool call of its worker had raised,
\* the exit code (-1 while running), the exception that ended the run and
\* where the run was when it was raised
NoObs ==
    [planner |-> 0, architect |-> 0, coder |-> 0, workers |-> 0, succeeded |-> 0,
     supersteps |-> 0, toolCalls |-> 0, planned |-> <<>>, executed |-> <<>>,
     swallowed |-> FALSE, exit |-> -1, error |-> None, at |-> None,
     outcome |-> "running"]

PipelineFs ==
    { BaseFs,
      Put(Put(BaseFs, PROJECT_ROOT, Dir), PROJECT_ROOT \o <<"a">>, File("hi")),
      Put(Put(BaseFs, PROJECT_ROOT, Dir), PROJECT_ROOT \o <<"a">>, Dir) }

Init ==
    /\ links = NoLinks
    /\ fs \in PipelineFs
    /\ last = NoCall
    /\ pc = "input"
    /\ limit \in 0..MaxLimit
    /\ sched = {}
    /\ state = EmptyDict
    /\ cur = NoCur
    /\ session = NoSession
    /\ obs = NoObs

\* an exception leaves agent.invoke and main ends as after a normal return
Fail_ExitsZero(e) ==
    /\ pc' = "exit"
    /\ obs' = [obs EXCEPT !.exit = 0, !.error = e, !.at = pc, !.outcome = "completed"]

\* an exception leaves agent.invoke: main prints it and exits with 1
Fail(e) ==
    /\ pc' = "exit"
    /\ obs' = [obs EXCEPT !.exit = 1, !.error = e, !.at = pc, !.outcome = "error"]

\* main: the prompt is read and agent.invoke called
Invoke ==
    /\ pc = "input"
    /\ IF limit < 1
       THEN /\ Fail("ValueError: recursion_limit must be at least 1")
            /\ UNCHANGED <<sched, state>>
       ELSE /\ pc' = "graph"
            /\ sched' = {EntryPoint}
            /\ state' = [EmptyDict EXCEPT !.keys = {"user_prompt"}]
            /\ UNCHANGED obs
    /\ UNCHANGED <<fs, links, last, limit, cur, session>>

\* a node is due and the recursion limit is used up: GraphRecursionError
OutOfSteps ==
    /\ pc = "graph"
    /\ sched \cap Nodes # {}
    /\ StepsExhausted(obs.supersteps, limit)
    /\ Fail("GraphRecursionError")
    /\ UNCHANGED <<fs, links, last, limit, sched, state, cur, session>>

\* node n can start a superstep
Due(n) ==
    /\ pc = "graph"
    /\ n \in sched
    /\ ~StepsExhausted(obs.supersteps, limit)

\* node n returned `s`: the state is replaced and the next nodes are due
NodeReturns(n, s) ==
    /\ state' = s
    /\ sched' = (sched \ {n}) \cup NextNodes(n, s)
    /\ pc' = "graph"

planner_agent ==
    /\ Due("planner")
    /\ \E resp \in {"Plan", "None", "raise"} :
          IF "user_prompt" \notin state.keys
          THEN Fail("KeyError: user_prompt") /\ UNCHANGED <<sched, state>>
          ELSE IF resp = "raise"
          THEN Fail("LLMError") /\ UNCHANGED <<sched, state>>
          ELSE IF resp = "None"
          THEN /\ Fail("ValueError: Planner did not return a valid response.")
               /\ UNCHANGED <<sched, state>>
          ELSE /\ NodeReturns("planner", [EmptyDict EXCEPT !.keys = {"plan"}])
               /\ obs' = [obs EXCEPT !.planner = @ + 1, !.supersteps = @ + 1]
    /\ UNCHANGED <<fs, links, last, limit, cur, session>>

architect_agent ==
    /\ Due("architect")
    /\ \E resp \in {"TaskPlan", "None", "raise"}, tp \in TaskPlans :
          IF "plan" \notin state.keys
          THEN Fail("KeyError: plan") /\ UNCHANGED <<sched, state>>
          ELSE IF resp = "raise"
          THEN Fail("LLMError") /\ UNCHANGED <<sched, state>>
          ELSE IF resp = "None"
          THEN /\ Fail("ValueError: Architect did not return a valid response.")
               /\ UNCHANGED <<sched, state>>
          ELSE /\ NodeReturns("architect",
                      [EmptyDict EXCEPT !.keys = {"task_plan"}, !.task_plan = tp])
               /\ obs' = [obs EXCEPT !.architect = @ + 1, !.supersteps = @ + 1,
                                     !.planned = tp]
    /\ UNCHANGED <<fs, links, last, limit, cur, session>>

\* coder_agent up to the choice of current_task: the coder state is taken
\* from the graph's state or made; with every step done it returns DONE
coder_enter ==
    /\ Due("coder")
    /\ IF "coder_state" \notin state.keys /\ "task_plan" \notin state.keys
       THEN Fail("KeyError: task_plan") /\ UNCHANGED <<sched, state, cur>>
       ELSE LET cs == IF "coder_state" \in state.keys THEN state.coder_state
                      ELSE CoderState(state.task_plan, 0)
                counted == [obs EXCEPT !.coder = @ + 1, !.supersteps = @ + 1]
            IN  IF AllDone(cs)
                THEN /\ NodeReturns("coder",
                            StateDict({"coder_state", "status"}, <<>>, cs, "DONE"))
                     /\ obs' = counted
                     /\ UNCHANGED cur
                ELSE /\ pc' = "pre_read"
                     /\ cur' = [coder_state |-> cs, startIdx |-> cs.current_step_idx]
                     /\ obs' = counted
                     /\ UNCHANGED <<sched, state>>
    /\ UNCHANGED <<fs, links, last, limit, session>>

\* the first step taken whatever the index is
current_task_first == cur.coder_state.task_plan[1]

\* steps[coder_state.current_step_idx]
current_task == cur.coder_state.task_plan[cur.coder_state.current_step_idx + 1]

\* the pre-read with its exception caught and the content taken as empty
coder_pre_read_swallows ==
    /\ pc = "pre_read"
    /\ LET r == read_file(fs, links, current_task.filepath)
       IN  /\ last' = Call("read_file.run", current_task.filepath, "", r, fs)
           /\ fs' = r.fs
           /\ pc' = "worker"
           /\ session' = NoSession
           /\ obs' = [obs EXCEPT !.workers = @ + 1,
                         !.executed = Append(@, cur.coder_state.current_step_idx)]
    /\ UNCHANGED <<links, limit, sched, state, cur>>

\* existing_content = read_file.run(current_task.filepath), and, when it
\* returns, the worker sub-session is set up and invoked
coder_pre_read ==
    /\ pc = "pre_read"
    /\ LET r == read_file(fs, links, current_task.filepath)
       IN  /\ last' = Call("read_file.run", current_task.filepath, "", r, fs)
           /\ fs' = r.fs
           /\ IF r.exc # None
              THEN Fail(r.exc) /\ UNCHANGED session
              ELSE /\ pc' = "worker"
                   /\ session' = NoSession
                   /\ obs' = [obs EXCEPT !.workers = @ + 1,
                                 !.executed = Append(@, cur.coder_state.current_step_idx)]
    /\ UNCHANGED <<links, limit, sched, state, cur>>

\* the worker calls a tool; the tool returns, or it raises and the tool node
\* of the sub-session hands the error to the worker as the tool's answer
worker_tool_call ==
    /\ pc = "worker"
    /\ MayCallTool(session.calls, limit)
    /\ \E c \in WorkerCalls(current_task) :
          LET r == ToolNode(fs, links, c)
          IN  /\ fs' = r.fs
              /\ last' = Call(c.tool, c.path, c.arg, r, fs)
              /\ session' = [calls |-> session.calls + 1,
                             errors |-> session.errors \/ r.exc # None]
              /\ obs' = [obs EXCEPT !.toolCalls = @ + 1]
    /\ UNCHANGED <<links, pc, limit, sched, state, cur>>

\* the worker calls a tool, the tool raises and the tool node of the
\* sub-session lets the error through: react_agent.invoke raises it
worker_tool_call_raises ==
    /\ pc = "worker"
    /\ MayCallTool(session.calls, limit)
    /\ \E c \in WorkerCalls(current_task) :
          LET r == ToolNode(fs, links, c)
          IN  /\ r.exc # None
              /\ fs' = r.fs
              /\ last' = Call(c.tool, c.path, c.arg, r, fs)
              /\ session' = [calls |-> session.calls + 1, errors |-> TRUE]
              /\ pc' = "exit"
              /\ obs' = [obs EXCEPT !.toolCalls = @ + 1, !.exit = 1, !.error = r.exc,
                                    !.at = pc, !.outcome = "error"]
    /\ UNCHANGED <<links, limit, sched, state, cur>>

\* the same with the step index moved on before react_agent.invoke
worker_llm_raises_advanced ==
    /\ pc = "worker"
    /\ Fail("LLMError")
    /\ cur' = [cur EXCEPT !.coder_state = Advance(@)]
    /\ UNCHANGED <<fs, links, last, limit, sched, state, session>>

\* the reasoning engine fails inside the sub-session
worker_llm_raises ==
    /\ pc = "worker"
    /\ Fail("LLMError")
    /\ UNCHANGED <<fs, links, last, limit, sched, state, cur, session>>

\* react_agent.invoke returns: the step index moves on and the coder state
\* is returned
coder_return ==
    /\ pc = "worker"
    /\ LET cs == Advance(cur.coder_state)
       IN  /\ NodeReturns("coder", StateDict({"coder_state"}, <<>>, cs, ""))
           /\ cur' = [cur EXCEPT !.coder_state = cs]
    /\ obs' = [obs EXCEPT !.succeeded = @ + 1,
                          !.swallowed = @ \/ session.errors]
    /\ UNCHANGED <<fs, links, last, limit, session>>

\* agent.invoke returns, main prints the final state and ends
main_returns ==
    /\ pc = "graph"
    /\ sched \cap Nodes = {}
    /\ pc' = "exit"
    /\ obs' = [obs EXCEPT !.exit = 0, !.outcome = "completed"]
    /\ UNCHANGED <<fs, links, last, limit, sched, state, cur, session>>

\* Ctrl+C: KeyboardInterrupt is raised in main's thread wherever it is (at
\* the prompt, in a node, in the pre-read, in the worker sub-session); main
\* prints "Operation cancelled by user." and exits with 0
keyboard_interrupt ==
    /\ pc \in {"input", "graph", "pre_read", "worker"}
    /\ pc' = "exit"
    /\ obs' = [obs EXCEPT !.exit = 0, !.at = pc, !.outcome = "cancelled"]
    /\ UNCHANGED <<fs, links, last, limit, sched, state, cur, session>>

Next ==
    \/ Invoke
    \/ OutOfSteps
    \/ planner_agent
    \/ architect_agent
    \/ coder_enter
    \/ coder_pre_read
    \/ worker_tool_call
    \/ worker_tool_call_raises
    \/ worker_llm_raises
    \/ coder_return
    \/ main_returns
    \/ keyboard_interrupt

Spec == Init /\ [][Next]_vars

-----------------------------------------------------------------------------
(* Properties of the tool layer *)

\* p is root or a descendant of it
Inside(p, root) == Len(p) >= Len(root) /\ SubSeq(p, 1, Len(root)) = root

\* where the path string of the last call leads, and the resolved root
Target == Resolve(JoinPath(PROJECT_ROOT, last.path), links)
ResolvedRoot == Resolve(PROJECT_ROOT, links)

\* C3 (Containment): safe_path_for_project either returns the resolved path,
\* which is the resolved Project Root or a descendant of it and holds no
\* symbolic link any more, or raises the security error; it raises only for
\* a path that resolves outside the resolved root.
C3_Containment ==
    last.op = "safe_path_for_project" =>
        /\ last.exc \in {None, SecurityError}
        /\ last.exc = None =>
              /\ last.ret = Target
              /\ Inside(last.ret, ResolvedRoot)
              /\ Resolve(last.ret, links) = last.ret
        /\ last.exc = SecurityError => ~Inside(Target, ResolvedRoot)

\* a path string with ".." in it that leads through a symbolic link to a
\* descendant of the root is accepted
C3_Witness ==
    /\ last.op = "safe_path_for_project"
    /\ last.exc = None
    /\ links # NoLinks
    /\ \E i \in DOMAIN last.path.parts : last.path.parts[i] = ".."
    /\ \E i \in DOMAIN last.path.parts : last.path.parts[i] = "ln"
    /\ last.ret # ResolvedRoot

\* the last call wrote to a place where a file can be: inside the root, not a
\* directory, and below no regular file
WritableTarget ==
    /\ Inside(Target, ResolvedRoot)
    /\ last.pre.kind # "dir"
    /\ \A q \in Parents(Target) : ~IsFile(fs, q)

C5_ReadAbsentAnywhere ==
    (last.op = "read_file" /\ last.pre.kind = "absent")
        => /\ last.exc = None
           /\ last.ret = ""
           /\ last.unchanged

\* C5 amended: read_file(p) of a path that resolves to the root or below it
\* and at which nothing exists returns "", does not raise and leaves the
\* filesystem as it was; a path that resolves outside the root raises the
\* security error, whether or not something exists there.
C5_ReadAbsentInside ==
    last.op = "read_file" =>
        /\ (Inside(Target, ResolvedRoot) /\ last.pre.kind = "absent")
              => (last.exc = None /\ last.ret = "" /\ last.unchanged)
        /\ ~Inside(Target, ResolvedRoot)
              => (last.exc = SecurityError /\ last.unchanged)

C5_Witness ==
    /\ last.op = "read_file"
    /\ Inside(Target, ResolvedRoot)
    /\ last.pre.kind = "absent"
    /\ last.exc = None
    /\ last.ret = ""

\* C8: write_file, read_file, list_files and run_cmd with an explicit cwd,
\* given a path that resolves outside the root, raise the security error and
\* leave the filesystem as it was.
C8_SandboxBeforeEffect ==
    (/\ last.op \in {"write_file", "read_file", "list_files", "run_cmd"}
     /\ ~Inside(Target, ResolvedRoot))
        => /\ last.exc = SecurityError
           /\ last.unchanged

\* write_file refused a path that leads outside through a symbolic link
C8_Witness ==
    /\ last.op = "write_file"
    /\ \E i \in DOMAIN last.path.parts : last.path.parts[i] = "ln"
    /\ Inside(Target, Outside)
    /\ last.exc = SecurityError
    /\ last.unchanged

-----------------------------------------------------------------------------
(* Properties of the graph run *)

\* the implementation steps as the architect returned them, and their number
Planned == obs.planned
N == Len(obs.planned)

\* coder_state.current_step_idx of the coder state the coder works on
Idx == cur.coder_state.current_step_idx

\* C1 as stated (Termination): DONE is signalled by the activation that
\* raises current_step_idx to N, so that DONE is reached after exactly N
\* activations of coder_agent.
C1_DoneAfterNActivations ==
    /\ GetStatus(state) = "DONE" => obs.coder = N
    /\ ("coder_state" \in state.keys /\ state.coder_state.current_step_idx >= N)
          => GetStatus(state) = "DONE"

\* C1 amended: DONE is signalled only by an activation of coder_agent that is
\* entered with current_step_idx = N; it is activation N + 1, after N
\* activations that each invoked one worker sub-session and raised
\* current_step_idx by one; no activation follows it, and main ends normally
\* only after it.
C1_DoneAfterNPlusOneActivations ==
    /\ GetStatus(state) = "DONE" =>
          /\ obs.coder = N + 1
          /\ obs.workers = N
          /\ obs.succeeded = N
          /\ state.coder_state.current_step_idx = N
    /\ (pc = "graph" /\ "coder_state" \in state.keys /\ GetStatus(state) # "DONE")
          => obs.coder = state.coder_state.current_step_idx
    /\ obs.outcome = "completed" => GetStatus(state) = "DONE"

C1_Witness ==
    /\ obs.outcome = "completed"
    /\ N >= 2
    /\ obs.coder = N + 1
    /\ obs.succeeded = N

\* C2 (Monotonic progress): current_step_idx is 0 when the coder state is
\* made, is at every moment the number of worker sub-sessions that have
\* returned (so it never decreases and moves by one, on a success only), and
\* lies between 0 and the number of implementation steps.
C2_MonotonicProgress ==
    /\ Idx = obs.succeeded
    /\ Idx \in 0..N
    /\ "coder_state" \in state.keys =>
          /\ state.coder_state.current_step_idx = obs.succeeded
          /\ state.coder_state.current_step_idx \in 0..Len(state.coder_state.task_plan)
    /\ pc \in {"pre_read", "worker"} => Idx < N
    /\ obs.succeeded <= obs.workers

\* two steps were done and the third activation failed
C2_Witness ==
    /\ obs.outcome = "error"
    /\ obs.at \in {"pre_read", "worker"}
    /\ obs.succeeded >= 2
    /\ Idx = obs.succeeded

\* C6 (No advance and no retry on failure): when an activation of
\* coder_agent fails, current_step_idx is what it was when the activation
\* began, the task plan is as the architect returned it, and the step was
\* run once only (every step index so far was activated once, so that an
\* activation with the state as kept would take the same index).
C6_NoAdvanceOnFailure ==
    (obs.outcome = "error" /\ obs.at \in {"pre_read", "worker"}) =>
        /\ Idx = cur.startIdx
        /\ cur.coder_state.task_plan = Planned
        /\ obs.coder = cur.startIdx + 1
        /\ obs.workers <= cur.startIdx + 1
        /\ obs.succeeded = cur.startIdx
        /\ "coder_state" \in state.keys => state.coder_state.current_step_idx = cur.startIdx
        /\ pc = "exit" /\ obs.exit = 1

\* the worker sub-session of the second step failed
C6_Witness ==
    /\ obs.outcome = "error"
    /\ obs.at = "worker"
    /\ cur.startIdx >= 1
    /\ Idx = cur.startIdx

C9_StageOrder ==
    /\ obs.planner <= 1
    /\ obs.architect <= obs.planner
    /\ obs.coder > 0 => obs.architect = 1
    /\ obs.outcome = "completed" => obs.planner = 1 /\ obs.architect = 1
    /\ Cardinality(sched \cap Nodes) <= 1
    /\ pc \in {"pre_read", "worker"} => sched = {"coder"}
    /\ obs.error \notin {"KeyError: user_prompt", "KeyError: plan", "KeyError: task_plan"}
    /\ ("planner" \in sched /\ pc = "graph") => obs.planner = 0
    /\ ("architect" \in sched /\ pc = "graph") => obs.planner = 1 /\ obs.architect = 0
    /\ ("coder" \in sched /\ pc = "graph") => obs.architect = 1

\* the coder is in its second activation
C9_Witness ==
    /\ pc = "worker"
    /\ obs.planner = 1
    /\ obs.architect = 1
    /\ obs.coder = 2

C11_ClosedToolSet ==
    /\ (last.op \in UnlistedNames) =>
          /\ last.unchanged
          /\ last.exc = None
          /\ last.ret = NotAValidTool
    /\ (pc = "worker" /\ session.calls > 0) => last.op \in coder_tools \cup UnlistedNames
    /\ (last.op \notin {"none", "read_file.run"} /\ ~last.unchanged) => last.op = "write_file"

\* the worker of the second step asked for run_cmd where the command would
\* have made a file, and nothing was run
C11_Witness ==
    /\ pc = "worker"
    /\ last.op = "run_cmd"
    /\ last.arg = "touch b"
    /\ IsDir(fs, PROJECT_ROOT)
    /\ ~Exists(fs, PROJECT_ROOT \o <<"b">>)
    /\ last.ret = NotAValidTool
    /\ cur.startIdx >= 1

\* the regular files below the directory d, at any depth
RegularFilesUnder(d) == {q \in DOMAIN fs : d \in Parents(q) /\ fs[q].kind = "file"}

\* C12 (Listing correctness): list_files(d) of a directory d inside the root
\* returns the regular files below d at any depth, each relative to the
\* Project Root (one line that says so when there is none); of a path inside
\* the root that is no directory it returns an error value; it never raises.
C12_ListingCorrectness ==
    (last.op = "list_files" /\ Inside(Target, ResolvedRoot)) =>
        /\ last.exc = None
        /\ last.pre.kind = "dir" =>
              last.ret = IF RegularFilesUnder(Target) = {} THEN NoFilesFound
                         ELSE {RelativeTo(q, ResolvedRoot) : q \in RegularFilesUnder(Target)}
        /\ last.pre.kind # "dir" => last.ret = <<"ERROR: not a directory", Target>>

\* C13 (Cancellation is cooperative): a user interrupt ends the run only
\* where no step is in progress (not in its file read, worker sub-session or
\* file writes); after it no stage is activated and the exit code is 0.
C13_CooperativeCancellation ==
    obs.outcome = "cancelled" =>
        /\ obs.at \notin {"pre_read", "worker"}
        /\ pc = "exit"
        /\ obs.exit = 0

\* C14 (Run outcome to exit code): main ends with 0 when the pipeline reached
\* DONE, with 1 when an exception left a stage (planner or architect without
\* a value, a failed step, the recursion limit used up) and with 0 on a user
\* interrupt; a run in which a stage raised never ends as a completion and
\* never reaches DONE, and no stage is run again: planner and architect run
\* at most once and a worker is invoked at most once for each step.
C14_ExitCodes ==
    /\ (pc = "exit") <=> (obs.exit # -1)
    /\ obs.exit \in {-1, 0, 1}
    /\ obs.outcome = "completed" =>
          /\ obs.exit = 0
          /\ obs.error = None
          /\ GetStatus(state) = "DONE"
    /\ obs.outcome = "cancelled" => obs.exit = 0 /\ obs.error = None
    /\ obs.error # None =>
          /\ obs.outcome = "error"
          /\ obs.exit = 1
          /\ pc = "exit"
          /\ GetStatus(state) # "DONE"
    /\ obs.exit = 1 => obs.error # None
    /\ obs.planner <= 1 /\ obs.architect <= 1
    /\ obs.workers \in {obs.succeeded, obs.succeeded + 1}
    /\ obs.coder <= obs.succeeded + 1

\* the architect returned no value after the planner had returned a plan
C14_Witness ==
    /\ obs.error = "ValueError: Architect did not return a valid response."
    /\ obs.exit = 1
    /\ obs.planner = 1
    /\ obs.coder = 0
    /\ pc = "exit"

\* the step indices 0 .. n-1 in increasing order
UpTo(n) == [k \in 1..n |-> k - 1]

\* C15 (In-order, exactly-once execution): the k-th worker sub-session of a
\* run is invoked for implementation_steps[k], after a read of that step's
\* filepath in the same activation; when DONE is produced a worker has been
\* invoked once for each index 0..N-1, in increasing order; and the
\* implementation steps the coder holds are at every moment the ones the
\* architect returned, in the same order.
C15_InOrderExactlyOnce ==
    /\ obs.workers <= N
    /\ obs.executed = UpTo(obs.workers)
    /\ pc = "worker" =>
          /\ Idx = obs.workers - 1
          /\ current_task = Planned[obs.workers]
    /\ (pc = "worker" /\ session.calls = 0) =>
          /\ last.op = "read_file.run"
          /\ last.exc = None
          /\ last.path = Planned[obs.workers].filepath
    /\ GetStatus(state) = "DONE" => obs.executed = UpTo(N)
    /\ "task_plan" \in state.keys => state.task_plan = Planned
    /\ "coder_state" \in state.keys => state.coder_state.task_plan = Planned
    /\ obs.coder > 0 => cur.coder_state.task_plan = Planned

\* DONE after three steps, each another step than the one before it
C15_Witness ==
    /\ GetStatus(state) = "DONE"
    /\ N = 3
    /\ Planned[1] # Planned[2]
    /\ Planned[2] # Planned[3]
    /\ obs.executed = <<0, 1, 2>>

\* what the stages have done: their activations and the workers invoked
Activations == <<obs.planner, obs.architect, obs.coder, obs.workers>>

\* C16 (DONE is terminal and the only exit): after an activation of the coder
\* the graph goes to END exactly when the coder's result carries the status
\* DONE, and to the coder otherwise; once it is at END no stage is activated,
\* the state and the filesystem stay as they are; and the status DONE is
\* produced only with current_step_idx at or beyond the number of
\* implementation steps.
C16_DoneIsTerminal ==
    /\ [](/\ (obs.coder > 0 /\ pc = "graph") =>
                /\ (GetStatus(state) = "DONE") <=> (sched = {"END"})
                /\ (GetStatus(state) # "DONE") <=> (sched = {"coder"})
          /\ "END" \in sched => GetStatus(state) = "DONE"
          /\ GetStatus(state) = "DONE" =>
                /\ state.coder_state.current_step_idx >= Len(state.coder_state.task_plan)
                /\ state.coder_state.task_plan = Planned
          /\ obs.outcome = "completed" => "END" \in sched)
    /\ [][("END" \in sched) =>
            /\ Activations' = Activations
            /\ state' = state
            /\ fs' = fs
            /\ sched' = sched
            /\ pc' = "exit"]_vars

\* the run of a plan of two steps went to END and main ended
C16_Witness ==
    /\ sched = {"END"}
    /\ GetStatus(state) = "DONE"
    /\ obs.outcome = "completed"
    /\ N = 2
    /\ obs.coder = 3

\* C17 (Empty TaskPlan): when the architect returned a TaskPlan without
\* implementation steps, the coder is activated once at most; that
\* activation makes the coder state with current_step_idx = 0 and returns
\* DONE, and the run makes no file read, invokes no worker, calls no tool and
\* leaves the filesystem as it was.
C17_EmptyTaskPlan ==
    (obs.architect = 1 /\ N = 0) =>
        /\ pc \notin {"pre_read", "worker"}
        /\ obs.workers = 0
        /\ obs.toolCalls = 0
        /\ last = NoCall
        /\ fs \in PipelineFs
        /\ obs.coder <= 1
        /\ obs.coder = 1 =>
              /\ GetStatus(state) = "DONE"
              /\ state.coder_state = CoderState(<<>>, 0)
              /\ sched = {"END"}
        /\ obs.outcome = "completed" => obs.coder = 1 /\ obs.supersteps = 3

\* the run of an empty plan has ended normally
C17_Witness ==
    /\ obs.architect = 1
    /\ N = 0
    /\ obs.coder = 1
    /\ GetStatus(state) = "DONE"
    /\ obs.outcome = "completed"
    /\ last = NoCall

\* C18 (write_file is all-or-nothing on the target file): write_file(p, c)
\* either returns its WROTE confirmation, and the file at p then holds the
\* content written, or raises, and what is at p (a file with its content, or
\* nothing) is what was there before the call.
C18_WriteAllOrNothing ==
    last.op = "write_file" =>
        \/ /\ last.exc = None
           /\ last.ret = <<"WROTE", Target>>
           /\ NodeAt(fs, Target) = File(Normalised(last.arg).text)
        \/ /\ last.exc # None
           /\ NodeAt(fs, Target) = last.pre

====
